---- MODULE Spec2Model ----
(***************************************************************************)
(* mcp-workflow-deploy.py: a one-shot script that builds a workflow        *)
(* payload, runs `docker exec n8n-mcp-configured node -e <script>` once    *)
(* under a 30 second timeout, classifies the captured stdout by the        *)
(* presence of the check-mark character and prints a closing checklist.    *)
(*                                                                         *)
(* Text is a sequence of tokens.  A token is either one character that     *)
(* matters to the script or to JSON (an emoji, a newline, a quote, a       *)
(* backslash, a digit, a delimiter) or a chunk of ordinary characters      *)
(* that holds no emoji, newline, quote or backslash.  Emoji are            *)
(* written by code point ("U+2705" is the check mark).  print(x) appends   *)
(* the tokens of x and a newline to the standard output of the script.     *)
(* The captured pipes are decoded as UTF-8 (text=True under a UTF-8        *)
(* locale) and the script's own standard output is writable.               *)
(***************************************************************************)
EXTENDS Integers, Sequences, FiniteSets, TLC

VARIABLES
    pc,             \* position of the outer script
    output,         \* everything the outer script has printed (tokens)
    workflow_data,  \* <<>> before line 9, <<value>> after
    cmd,            \* <<>> before line 48, the argument list after
    launches,       \* number of calls of subprocess.run
    elapsed,        \* seconds the call of subprocess.run has been waiting
    child_pc,       \* position of the docker exec / node child process
    console,        \* what the child has written to its stdout pipe
    errtext,        \* what the child has written to its stderr pipe
    child_rc,       \* exit status of the child
    request,        \* <<>> or <<the HTTPS request the inner script sent>>
    status,         \* status code the inner script received, 0 when none
    inner_err,      \* <<>> or <<e.message>> of the inner request error
    result,         \* <<>> or <<CompletedProcess>>
    exc,            \* <<>> or <<the exception subprocess.run raised>>
    exit_code       \* -1 while the script runs, then its exit status

vars == <<pc, output, workflow_data, cmd, launches, elapsed, child_pc, console,
          errtext, child_rc, request, status, inner_err, result, exc, exit_code>>

-----------------------------------------------------------------------------
(* Bounds of the environment *)

\* longest stderr text the environment produces, in tokens
MaxErrLen == 2

\* the timeout argument of subprocess.run, in seconds
Timeout == 30

-----------------------------------------------------------------------------
(* Characters *)

NL == "\n"
Marker == "U+2705"          \* the check mark tested on line 95
Rocket == "U+1F680"
Clipboard == "U+1F4CB"
BarChart == "U+1F4CA"
Warning == <<"U+26A0", "U+FE0F">>
Party == "U+1F389"
Wrench == "U+1F527"
AlarmClock == "U+23F0"
Collision == "U+1F4A5"
Target == "U+1F3AF"
CrossMark == "U+274C"

\* "x in s" of Python for a one-character x
Contains(s, ch) == \E i \in 1..Len(s) : s[i] = ch

\* print(s): the text and the newline print() ends it with
PrintLine(s) == s \o <<NL>>

\* console.log(a, b) of node: the arguments joined by one space, and a newline
ConsoleLog2(a, b) == a \o <<" ">> \o b \o <<NL>>

-----------------------------------------------------------------------------
(* The messages of the outer script *)

BannerMsg == <<Rocket, " MCP Workflow Deployment via Configured Container">>
AttemptMsg == <<Clipboard, " Attempting MCP workflow creation...">>
ContainerOutputMsg == <<BarChart, " MCP Container Output:">>
ErrorsMsg == Warning \o <<" Errors:">>
ConfiguredMsg1 == <<Party, " MCP is properly configured!">>
ConfiguredMsg2 == <<Marker, " The N8N-MCP integration is working">>
ConfiguredMsg3 == <<Rocket, " Ready for direct workflow deployment through MCP tools">>
AdjustMsg == <<Wrench, " MCP configuration may need adjustment">>
TimedOutMsg == <<AlarmClock, " MCP test timed out">>
ErrorPrefix == <<Collision, " Error: ">>
NextStepsMsg == <<NL, Clipboard, " Next Steps:">>
Step1Msg == <<"1. MCP container is configured with N8N API access">>
Step2Msg == <<"2. Use MCP tools for workflow management">>
Step3Msg == <<"3. Test workflow deployment via MCP">>

\* lines 107-110 as printed
Checklist ==
    PrintLine(NextStepsMsg) \o PrintLine(Step1Msg) \o PrintLine(Step2Msg)
        \o PrintLine(Step3Msg)

-----------------------------------------------------------------------------
(* Python values, as far as the payload needs them *)

PyStr(s) == [t |-> "str", v |-> s]
PyInt(n) == [t |-> "int", v |-> n]
PyList(xs) == [t |-> "list", v |-> xs]
PyTuple(xs) == [t |-> "tuple", v |-> xs]
\* a dict keeps its items in insertion order: a sequence of <<key, value>>
PyDict(items) == [t |-> "dict", v |-> items]

\* d[key] for a dict d and a str key (the first item, keys being unique)
Get(d, key) ==
    LET i == CHOOSE j \in 1..Len(d.v) : d.v[j][1] = PyStr(<<key>>)
    IN  d.v[i][2]

\* the triple-quoted JavaScript of lines 26-36
FunctionCode ==
    << NL, "const data = $json.body || $json;",
       NL, "return {",
       NL, "  asset_id: data.id,",
       NL, "  content_type: data.content_type || 'single_image',",
       NL, "  owner: data.owner,",
       NL, "  mcp_processed: true,",
       NL, "  quality_score: Math.floor(Math.random() * 100),",
       NL, "  processed_at: new Date().toISOString()",
       NL, "};",
       NL >>

\* the position lists with tuples in their place
WorkflowLiteral_tuple_positions ==
    PyDict(<<
      <<PyStr(<<"name">>), PyStr(<<"MCP Enhanced Content Pipeline">>)>>,
      <<PyStr(<<"description">>), PyStr(<<"Content processing with MCP enhancements">>)>>,
      <<PyStr(<<"nodes">>), PyList(<<
          PyDict(<<
            <<PyStr(<<"name">>), PyStr(<<"Content Webhook">>)>>,
            <<PyStr(<<"type">>), PyStr(<<"webhook">>)>>,
            <<PyStr(<<"parameters">>), PyDict(<<
                <<PyStr(<<"httpMethod">>), PyStr(<<"POST">>)>>,
                <<PyStr(<<"path">>), PyStr(<<"content-pipeline">>)>> >>)>>,
            <<PyStr(<<"position">>), PyTuple(<<PyInt(240), PyInt(300)>>)>> >>),
          PyDict(<<
            <<PyStr(<<"name">>), PyStr(<<"MCP Analysis">>)>>,
            <<PyStr(<<"type">>), PyStr(<<"function">>)>>,
            <<PyStr(<<"parameters">>), PyDict(<<
                <<PyStr(<<"code">>), PyStr(FunctionCode)>> >>)>>,
            <<PyStr(<<"position">>), PyTuple(<<PyInt(460), PyInt(300)>>)>> >>) >>)>> >>)

\* the dict literal of lines 9-41
WorkflowLiteral ==
    PyDict(<<
      <<PyStr(<<"name">>), PyStr(<<"MCP Enhanced Content Pipeline">>)>>,
      <<PyStr(<<"description">>), PyStr(<<"Content processing with MCP enhancements">>)>>,
      <<PyStr(<<"nodes">>), PyList(<<
          PyDict(<<
            <<PyStr(<<"name">>), PyStr(<<"Content Webhook">>)>>,
            <<PyStr(<<"type">>), PyStr(<<"webhook">>)>>,
            <<PyStr(<<"parameters">>), PyDict(<<
                <<PyStr(<<"httpMethod">>), PyStr(<<"POST">>)>>,
                <<PyStr(<<"path">>), PyStr(<<"content-pipeline">>)>> >>)>>,
            <<PyStr(<<"position">>), PyList(<<PyInt(240), PyInt(300)>>)>> >>),
          PyDict(<<
            <<PyStr(<<"name">>), PyStr(<<"MCP Analysis">>)>>,
            <<PyStr(<<"type">>), PyStr(<<"function">>)>>,
            <<PyStr(<<"parameters">>), PyDict(<<
                <<PyStr(<<"code">>), PyStr(FunctionCode)>> >>)>>,
            <<PyStr(<<"position">>), PyList(<<PyInt(460), PyInt(300)>>)>> >>) >>)>> >>)

-----------------------------------------------------------------------------
(* json.dumps and json.loads with their default arguments.  The strings of *)
(* the payload are ASCII, so ensure_ascii changes nothing in them.         *)

DigitChars == <<"0", "1", "2", "3", "4", "5", "6", "7", "8", "9">>
IsDigit(c) == \E d \in 1..10 : DigitChars[d] = c
DigitVal(c) == (CHOOSE d \in 1..10 : DigitChars[d] = c) - 1

RECURSIVE Digits(_)
\* str(n) for n >= 0
Digits(n) ==
    IF n < 10 THEN <<DigitChars[n + 1]>>
    ELSE Digits(n \div 10) \o <<DigitChars[(n % 10) + 1]>>

\* int.__repr__ as json.dumps writes it
DumpInt(n) == IF n < 0 THEN <<"-">> \o Digits(0 - n) ELSE Digits(n)

Quote == "\""
Backslash == "\\"

\* the escape json.dumps writes for one token of a str
EscapeToken(c) ==
    IF c = NL THEN <<Backslash, "n">>
    ELSE IF c = Quote THEN <<Backslash, Quote>>
    ELSE IF c = Backslash THEN <<Backslash, Backslash>>
    ELSE <<c>>

RECURSIVE EscapeAll(_)
EscapeAll(s) ==
    IF s = <<>> THEN <<>> ELSE EscapeToken(Head(s)) \o EscapeAll(Tail(s))

DumpStr(s) == <<Quote>> \o EscapeAll(s) \o <<Quote>>

RECURSIVE json_dumps(_)
RECURSIVE DumpElems(_)
RECURSIVE DumpItems(_)

\* the elements of a list or tuple, joined by ", "
DumpElems(xs) ==
    IF xs = <<>> THEN <<>>
    ELSE IF Len(xs) = 1 THEN json_dumps(xs[1])
    ELSE json_dumps(xs[1]) \o <<",", " ">> \o DumpElems(Tail(xs))

\* the items of a dict as "key": value, joined by ", "
DumpItems(items) ==
    IF items = <<>> THEN <<>>
    ELSE LET one == DumpStr(items[1][1].v) \o <<":", " ">> \o json_dumps(items[1][2])
         IN  IF Len(items) = 1 THEN one
             ELSE one \o <<",", " ">> \o DumpItems(Tail(items))

\* json.dumps(x): a list and a tuple both become a JSON array
json_dumps(x) ==
    CASE x.t = "str" -> DumpStr(x.v)
      [] x.t = "int" -> DumpInt(x.v)
      [] x.t \in {"list", "tuple"} -> <<"[">> \o DumpElems(x.v) \o <<"]">>
      [] x.t = "dict" -> <<"{">> \o DumpItems(x.v) \o <<"}">>

RECURSIVE SkipWs(_, _)
SkipWs(s, i) == IF i <= Len(s) /\ s[i] = " " THEN SkipWs(s, i + 1) ELSE i

RECURSIVE ParseStr(_, _, _)
\* the characters of a JSON string up to its closing quote, unescaped
ParseStr(s, i, acc) ==
    IF s[i] = Quote THEN [v |-> PyStr(acc), i |-> i + 1]
    ELSE IF s[i] = Backslash
         THEN LET c == IF s[i + 1] = "n" THEN NL ELSE s[i + 1]
              IN  ParseStr(s, i + 2, Append(acc, c))
         ELSE ParseStr(s, i + 1, Append(acc, s[i]))

RECURSIVE ParseInt(_, _, _)
ParseInt(s, i, acc) ==
    IF i <= Len(s) /\ IsDigit(s[i])
    THEN ParseInt(s, i + 1, 10 * acc + DigitVal(s[i]))
    ELSE [v |-> PyInt(acc), i |-> i]

RECURSIVE ParseValue(_, _)
RECURSIVE ParseElems(_, _, _)
RECURSIVE ParseItems(_, _, _)

\* the elements of a JSON array, after its "[" : always a Python list
ParseElems(s, i, acc) ==
    LET r == ParseValue(s, SkipWs(s, i))
        j == SkipWs(s, r.i)
    IN  IF s[j] = "," THEN ParseElems(s, j + 1, Append(acc, r.v))
        ELSE [v |-> PyList(Append(acc, r.v)), i |-> j + 1]

\* the members of a JSON object, after its "{" : a Python dict
ParseItems(s, i, acc) ==
    LET k == ParseStr(s, SkipWs(s, i) + 1, <<>>)
        c == SkipWs(s, k.i)
        r == ParseValue(s, SkipWs(s, c + 1))
        j == SkipWs(s, r.i)
    IN  IF s[j] = "," THEN ParseItems(s, j + 1, Append(acc, <<k.v, r.v>>))
        ELSE [v |-> PyDict(Append(acc, <<k.v, r.v>>)), i |-> j + 1]

ParseValue(s, i) ==
    CASE s[i] = Quote -> ParseStr(s, i + 1, <<>>)
      [] s[i] = "[" ->
            IF s[SkipWs(s, i + 1)] = "]"
            THEN [v |-> PyList(<<>>), i |-> SkipWs(s, i + 1) + 1]
            ELSE ParseElems(s, i + 1, <<>>)
      [] s[i] = "{" ->
            IF s[SkipWs(s, i + 1)] = "}"
            THEN [v |-> PyDict(<<>>), i |-> SkipWs(s, i + 1) + 1]
            ELSE ParseItems(s, i + 1, <<>>)
      [] s[i] = "-" ->
            LET r == ParseInt(s, i + 1, 0)
            IN  [v |-> PyInt(0 - r.v.v), i |-> r.i]
      [] OTHER -> ParseInt(s, i, 0)

\* json.loads(s)
json_loads(s) == ParseValue(s, SkipWs(s, 1)).v


-----------------------------------------------------------------------------
(* The command of lines 48-83 *)

\* the f-string of lines 50-82 as evaluated: it has no replacement field,
\* and each doubled brace becomes one brace
InlineScript ==
    << NL, "        console.log('Testing MCP workflow creation...');",
       NL, "        ",
       NL, "        // The MCP server should now have N8N API access",
       NL, "        // Try a simple API call to verify connectivity",
       NL, "        const https = require('https');",
       NL, "        ",
       NL, "        const options = {",
       NL, "            hostname: 'lifemastery.app.n8n.cloud',",
       NL, "            port: 443,",
       NL, "            path: '/api/v1/workflows',",
       NL, "            method: 'GET',",
       NL, "            headers: {",
       NL, "                'X-N8N-API-KEY': '<the key literal of line 63>'",
       NL, "            }",
       NL, "        };",
       NL, "        ",
       NL, "        const req = https.request(options, (res) => {",
       NL, "            console.log('MCP Container N8N API Status:', res.statusCode);",
       NL, "            if (res.statusCode === 200) {",
       NL, "                console.log('", Marker, " MCP container can access N8N API!');",
       NL, "                console.log('", Target, " Ready for MCP workflow deployment');",
       NL, "            } else {",
       NL, "                console.log('", CrossMark, " MCP container API access issue');",
       NL, "            }",
       NL, "        });",
       NL, "        ",
       NL, "        req.on('error', (e) => {",
       NL, "            console.log('", Collision, " MCP API Error:', e.message);",
       NL, "        });",
       NL, "        ",
       NL, "        req.end();",
       NL, "        " >>

\* the list of lines 48-83
CmdLiteral ==
    << <<"docker">>, <<"exec">>, <<"n8n-mcp-configured">>, <<"node">>, <<"-e">>,
       InlineScript >>

\* the request the inline script builds on lines 57-65 and sends on line 81
InnerRequest ==
    [ hostname |-> "lifemastery.app.n8n.cloud", port |-> 443,
      path |-> "/api/v1/workflows", method |-> "GET",
      headers |-> {"X-N8N-API-KEY"}, body |-> <<>> ]

-----------------------------------------------------------------------------
(* Exceptions *)

\* the base class of each exception class subprocess.run raises here
ParentClass ==
    [ c \in {"FileNotFoundError", "PermissionError", "OSError", "TimeoutExpired",
             "SubprocessError", "Exception"} |->
        CASE c \in {"FileNotFoundError", "PermissionError"} -> "OSError"
          [] c = "OSError" -> "Exception"
          [] c = "TimeoutExpired" -> "SubprocessError"
          [] c = "SubprocessError" -> "Exception"
          [] c = "Exception" -> "BaseException" ]

RECURSIVE IsSubclass(_, _)
IsSubclass(c, base) ==
    \/ c = base
    \/ c \in DOMAIN ParentClass /\ IsSubclass(ParentClass[c], base)

\* what Popen raises when the child cannot be started
LaunchErrors ==
    { [type |-> "FileNotFoundError",
       msg |-> <<"[Errno 2] No such file or directory: 'docker'">>],
      [type |-> "PermissionError",
       msg |-> <<"[Errno 13] Permission denied: 'docker'">>],
      [type |-> "OSError",
       msg |-> <<"[Errno 12] Cannot allocate memory">>] }

RECURSIVE Flatten(_)
\* the arguments of a command one after the other
Flatten(args) ==
    IF args = <<>> THEN <<>> ELSE Head(args) \o <<" ">> \o Flatten(Tail(args))

\* the TimeoutExpired subprocess.run raises: str(e) names the command and
\* the timeout
TimeoutError(c, t) ==
    [type |-> "TimeoutExpired",
     msg |-> <<"Command '">> \o Flatten(c) \o <<"' timed out after ">>
               \o Digits(t) \o <<" seconds">>]

\* the except clauses of lines 102 and 104 in the reverse order
HandlerFor_exception_first(e) ==
    IF IsSubclass(e.type, "Exception") THEN "h_except"
    ELSE IF IsSubclass(e.type, "TimeoutExpired") THEN "h_timeout"
    ELSE "uncaught"

\* the except clause that takes an exception raised in the try block: the
\* first one, in source order, whose class the exception is an instance of
HandlerFor(e) ==
    IF IsSubclass(e.type, "TimeoutExpired") THEN "h_timeout"
    ELSE IF IsSubclass(e.type, "Exception") THEN "h_except"
    ELSE "uncaught"

-----------------------------------------------------------------------------
(* What the environment can do *)

\* status codes the remote endpoint may answer with
StatusCodes == {200, 201, 204, 301, 302, 400, 401, 403, 404, 429, 500, 502, 503}

\* e.message of the errors the node https client reports
NodeErrors ==
    { <<"getaddrinfo ENOTFOUND lifemastery.app.n8n.cloud">>,
      <<"connect ECONNREFUSED">>,
      <<"socket hang up">> }

\* tokens of a stderr text: the marker itself and ordinary text
ErrTokens == {Marker, "Error: No such container: n8n-mcp-configured"}

\* every stderr text of at most MaxErrLen tokens
StderrTexts == UNION { [1..n -> ErrTokens] : n \in 0..MaxErrLen }


-----------------------------------------------------------------------------
(* The outer script, statement by statement *)

Init ==
    /\ pc = "banner"
    /\ output = <<>>
    /\ workflow_data = <<>>
    /\ cmd = <<>>
    /\ launches = 0
    /\ elapsed = 0
    /\ child_pc = "none"
    /\ console = <<>>
    /\ errtext = <<>>
    /\ child_rc = 0
    /\ request = <<>>
    /\ status = 0
    /\ inner_err = <<>>
    /\ result = <<>>
    /\ exc = <<>>
    /\ exit_code = -1

childVars == <<child_pc, console, errtext, child_rc, request, status, inner_err>>

\* line 6
PrintBanner ==
    /\ pc = "banner"
    /\ output' = output \o PrintLine(BannerMsg)
    /\ pc' = "build"
    /\ UNCHANGED <<workflow_data, cmd, launches, elapsed, childVars, result, exc,
                   exit_code>>

\* lines 9-41
BuildPayload ==
    /\ pc = "build"
    /\ workflow_data' = <<WorkflowLiteral>>
    /\ pc' = "try"
    /\ UNCHANGED <<output, cmd, launches, elapsed, childVars, result, exc, exit_code>>

\* lines 44-45
PrintAttempt ==
    /\ pc = "try"
    /\ output' = output \o PrintLine(AttemptMsg)
    /\ pc' = "cmd"
    /\ UNCHANGED <<workflow_data, cmd, launches, elapsed, childVars, result, exc,
                   exit_code>>

\* the payload serialized into the script argument
BuildCmd_embeds_payload ==
    /\ pc = "cmd"
    /\ cmd' = [CmdLiteral EXCEPT ![6] = @ \o json_dumps(workflow_data[1])]
    /\ pc' = "run"
    /\ UNCHANGED <<output, workflow_data, launches, elapsed, childVars, result, exc,
                   exit_code>>

\* lines 48-83
BuildCmd ==
    /\ pc = "cmd"
    /\ cmd' = CmdLiteral
    /\ pc' = "run"
    /\ UNCHANGED <<output, workflow_data, launches, elapsed, childVars, result, exc,
                   exit_code>>

\* line 85, the call: the child cannot be started and Popen raises
LaunchFails(e) ==
    /\ pc = "run"
    /\ launches' = launches + 1
    /\ exc' = <<e>>
    /\ pc' = HandlerFor(e)
    /\ UNCHANGED <<output, workflow_data, cmd, elapsed, childVars, result, exit_code>>

\* line 85, the call: docker exec is started and subprocess.run waits for it
LaunchOk ==
    /\ pc = "run"
    /\ launches' = launches + 1
    /\ child_pc' = "docker"
    /\ pc' = "wait"
    /\ UNCHANGED <<output, workflow_data, cmd, elapsed, console, errtext, child_rc,
                   request, status, inner_err, result, exc, exit_code>>

\* one second passes while subprocess.run waits for a child that has not
\* exited
Tick ==
    /\ pc = "wait"
    /\ child_pc # "exited"
    /\ elapsed < Timeout
    /\ elapsed' = elapsed + 1
    /\ UNCHANGED <<pc, output, workflow_data, cmd, launches, childVars, result, exc,
                   exit_code>>

\* line 85, the return: the child has exited within the timeout and its two
\* pipes and exit status become the CompletedProcess (check is not set, so
\* the exit status raises nothing)
RunReturns ==
    /\ pc = "wait"
    /\ child_pc = "exited"
    /\ result' = <<[stdout |-> console, stderr |-> errtext, returncode |-> child_rc]>>
    /\ pc' = "out"
    /\ UNCHANGED <<output, workflow_data, cmd, launches, elapsed, childVars, exc,
                   exit_code>>

\* line 85, the timeout: the child is killed, what it wrote is dropped with
\* the exception, and result is never bound
RunTimesOut ==
    /\ pc = "wait"
    /\ child_pc # "exited"
    /\ elapsed = Timeout
    /\ child_pc' = "killed"
    /\ exc' = <<TimeoutError(cmd, Timeout)>>
    /\ pc' = HandlerFor(TimeoutError(cmd, Timeout))
    /\ UNCHANGED <<output, workflow_data, cmd, launches, elapsed, console, errtext,
                   child_rc, request, status, inner_err, result, exit_code>>

\* lines 87-88
PrintContainerOutput ==
    /\ pc = "out"
    /\ output' = output \o PrintLine(ContainerOutputMsg) \o PrintLine(result[1].stdout)
    /\ pc' = "errs"
    /\ UNCHANGED <<workflow_data, cmd, launches, elapsed, childVars, result, exc,
                   exit_code>>

\* lines 90-92: a str is true when it is not empty
PrintErrors ==
    /\ pc = "errs"
    /\ output' = IF result[1].stderr # <<>>
                 THEN output \o PrintLine(ErrorsMsg) \o PrintLine(result[1].stderr)
                 ELSE output
    /\ pc' = "classify"
    /\ UNCHANGED <<workflow_data, cmd, launches, elapsed, childVars, result, exc,
                   exit_code>>

\* the three confirmation lines as printed by lines 96-98
ConfiguredLines ==
    PrintLine(ConfiguredMsg1) \o PrintLine(ConfiguredMsg2) \o PrintLine(ConfiguredMsg3)

\* the else of line 99 left out
Classify_no_else ==
    /\ pc = "classify"
    /\ output' = IF Contains(result[1].stdout, Marker)
                 THEN output \o ConfiguredLines \o PrintLine(AdjustMsg)
                 ELSE output \o PrintLine(AdjustMsg)
    /\ pc' = "next"
    /\ UNCHANGED <<workflow_data, cmd, launches, elapsed, childVars, result, exc,
                   exit_code>>

\* the exit status tested in place of the marker
Classify_tests_returncode ==
    /\ pc = "classify"
    /\ output' = IF result[1].returncode = 0
                 THEN output \o ConfiguredLines
                 ELSE output \o PrintLine(AdjustMsg)
    /\ pc' = "next"
    /\ UNCHANGED <<workflow_data, cmd, launches, elapsed, childVars, result, exc,
                   exit_code>>

\* the marker looked for in stdout and stderr together
Classify_checks_stderr ==
    /\ pc = "classify"
    /\ output' = IF Contains(result[1].stdout \o result[1].stderr, Marker)
                 THEN output \o ConfiguredLines
                 ELSE output \o PrintLine(AdjustMsg)
    /\ pc' = "next"
    /\ UNCHANGED <<workflow_data, cmd, launches, elapsed, childVars, result, exc,
                   exit_code>>

\* lines 95-100
Classify ==
    /\ pc = "classify"
    /\ output' = IF Contains(result[1].stdout, Marker)
                 THEN output \o ConfiguredLines
                 ELSE output \o PrintLine(AdjustMsg)
    /\ pc' = "next"
    /\ UNCHANGED <<workflow_data, cmd, launches, elapsed, childVars, result, exc,
                   exit_code>>

\* sys.exit(1) after the message
HandleTimeout_exits ==
    /\ pc = "h_timeout"
    /\ output' = output \o PrintLine(TimedOutMsg)
    /\ exit_code' = 1
    /\ pc' = "done"
    /\ UNCHANGED <<workflow_data, cmd, launches, elapsed, childVars, result, exc>>

\* the call tried again after the message
HandleTimeout_retries ==
    /\ pc = "h_timeout"
    /\ output' = output \o PrintLine(TimedOutMsg)
    /\ pc' = "run"
    /\ UNCHANGED <<workflow_data, cmd, launches, elapsed, childVars, result, exc,
                   exit_code>>

\* lines 102-103
HandleTimeout ==
    /\ pc = "h_timeout"
    /\ output' = output \o PrintLine(TimedOutMsg)
    /\ pc' = "next"
    /\ UNCHANGED <<workflow_data, cmd, launches, elapsed, childVars, result, exc,
                   exit_code>>

\* the message left out of the line
HandleException_drops_message ==
    /\ pc = "h_except"
    /\ output' = output \o PrintLine(ErrorPrefix)
    /\ pc' = "next"
    /\ UNCHANGED <<workflow_data, cmd, launches, elapsed, childVars, result, exc,
                   exit_code>>

\* lines 104-105: the f-string puts str(e) after the prefix
HandleException ==
    /\ pc = "h_except"
    /\ output' = output \o PrintLine(ErrorPrefix \o exc[1].msg)
    /\ pc' = "next"
    /\ UNCHANGED <<workflow_data, cmd, launches, elapsed, childVars, result, exc,
                   exit_code>>

\* lines 107-110
PrintNextSteps ==
    /\ pc = "next"
    /\ output' = output \o Checklist
    /\ pc' = "exit"
    /\ UNCHANGED <<workflow_data, cmd, launches, elapsed, childVars, result, exc,
                   exit_code>>

\* the end of the file: the interpreter exits with status 0
Exit ==
    /\ pc = "exit"
    /\ exit_code' = 0
    /\ pc' = "done"
    /\ UNCHANGED <<output, workflow_data, cmd, launches, elapsed, childVars, result, exc>>

-----------------------------------------------------------------------------
(* The child: docker exec, and the inline script node runs in the container *)

outerVars == <<pc, output, workflow_data, cmd, launches, elapsed, result, exc,
               exit_code>>

\* docker exec fails (no such container, no daemon): it writes to stderr
\* only and exits with a non-zero status
DockerExecFails(t, rc) ==
    /\ pc = "wait" /\ elapsed < Timeout
    /\ child_pc = "docker"
    /\ t # <<>>
    /\ errtext' = t
    /\ child_rc' = rc
    /\ child_pc' = "exited"
    /\ UNCHANGED <<outerVars, console, request, status, inner_err>>

\* lines 51-81: the synchronous part of the inline script logs its first
\* line and sends the request
NodeRunScript ==
    /\ pc = "wait" /\ elapsed < Timeout
    /\ child_pc = "docker"
    /\ console' = console \o <<"Testing MCP workflow creation...", NL>>
    /\ request' = <<InnerRequest>>
    /\ child_pc' = "awaiting"
    /\ UNCHANGED <<outerVars, errtext, child_rc, status, inner_err>>

\* every 2xx status taken for success
NodeOnResponse_any_2xx(code) ==
    /\ pc = "wait" /\ elapsed < Timeout
    /\ child_pc = "awaiting"
    /\ status' = code
    /\ console' = console
         \o ConsoleLog2(<<"MCP Container N8N API Status:">>, <<ToString(code)>>)
         \o (IF code \div 100 = 2
             THEN <<Marker, " MCP container can access N8N API!", NL,
                    Target, " Ready for MCP workflow deployment", NL>>
             ELSE <<CrossMark, " MCP container API access issue", NL>>)
    /\ child_pc' = "settled"
    /\ UNCHANGED <<outerVars, errtext, child_rc, request, inner_err>>

\* lines 67-75: the response callback
NodeOnResponse(code) ==
    /\ pc = "wait" /\ elapsed < Timeout
    /\ child_pc = "awaiting"
    /\ status' = code
    /\ console' = console
         \o ConsoleLog2(<<"MCP Container N8N API Status:">>, <<ToString(code)>>)
         \o (IF code = 200
             THEN <<Marker, " MCP container can access N8N API!", NL,
                    Target, " Ready for MCP workflow deployment", NL>>
             ELSE <<CrossMark, " MCP container API access issue", NL>>)
    /\ child_pc' = "settled"
    /\ UNCHANGED <<outerVars, errtext, child_rc, request, inner_err>>

\* lines 77-79: the error handler of the request
NodeOnError(m) ==
    /\ pc = "wait" /\ elapsed < Timeout
    /\ child_pc = "awaiting"
    /\ inner_err' = <<m>>
    /\ console' = console \o ConsoleLog2(<<Collision, " MCP API Error:">>, m)
    /\ child_pc' = "settled"
    /\ UNCHANGED <<outerVars, errtext, child_rc, request, status>>

\* node exits once nothing is pending; what it wrote to stderr and its exit
\* status are the runtime's
NodeExits(t, rc) ==
    /\ pc = "wait" /\ elapsed < Timeout
    /\ child_pc = "settled"
    /\ errtext' = t
    /\ child_rc' = rc
    /\ child_pc' = "exited"
    /\ UNCHANGED <<outerVars, console, request, status, inner_err>>

-----------------------------------------------------------------------------

Next ==
    \/ PrintBanner
    \/ BuildPayload
    \/ PrintAttempt
    \/ BuildCmd
    \/ \E e \in LaunchErrors : LaunchFails(e)
    \/ LaunchOk
    \/ Tick
    \/ \E t \in StderrTexts, rc \in {1, 125} : DockerExecFails(t, rc)
    \/ NodeRunScript
    \/ \E code \in StatusCodes : NodeOnResponse(code)
    \/ \E m \in NodeErrors : NodeOnError(m)
    \/ \E t \in StderrTexts, rc \in {0, 1} : NodeExits(t, rc)
    \/ RunReturns
    \/ RunTimesOut
    \/ PrintContainerOutput
    \/ PrintErrors
    \/ Classify
    \/ HandleTimeout
    \/ HandleException
    \/ PrintNextSteps
    \/ Exit

Spec == Init /\ [][Next]_vars

\* the script is one sequential process and the wait of line 85 ends within
\* the timeout: some step is always taken while one is possible
FairSpec == Spec /\ WF_vars(Next)


-----------------------------------------------------------------------------
(* Reading the printed output *)

\* seg stands in out from position i on
OccursAt(out, seg, i) ==
    /\ i + Len(seg) - 1 <= Len(out)
    /\ SubSeq(out, i, i + Len(seg) - 1) = seg

\* position i of out is the start of a line
LineStart(out, i) == i = 1 \/ out[i - 1] = NL

\* the positions at which out has the whole line msg
LinesOf(out, msg) ==
    { i \in 1..Len(out) : LineStart(out, i) /\ OccursAt(out, PrintLine(msg), i) }

HasLine(out, msg) == LinesOf(out, msg) # {}

\* out has a line that begins with pre
HasLineStarting(out, pre) ==
    \E i \in 1..Len(out) : LineStart(out, i) /\ OccursAt(out, pre, i)

\* the three confirmation lines, one after the other in the order of the claims
ConfiguredInOrder(out) ==
    \E i \in LinesOf(out, ConfiguredMsg1), j \in LinesOf(out, ConfiguredMsg2),
       k \in LinesOf(out, ConfiguredMsg3) : i < j /\ j < k

AnyConfiguredLine(out) ==
    \/ HasLine(out, ConfiguredMsg1)
    \/ HasLine(out, ConfiguredMsg2)
    \/ HasLine(out, ConfiguredMsg3)

\* the script is past the try statement
AfterTry == pc \in {"next", "exit", "done"}

Returned == result # <<>>
TimedOut == exc # <<>> /\ IsSubclass(exc[1].type, "TimeoutExpired")
OtherError == exc # <<>> /\ ~IsSubclass(exc[1].type, "TimeoutExpired")

\* what the script prints before line 85
Preamble == PrintLine(BannerMsg) \o PrintLine(AttemptMsg)

\* the checklist stands exactly once in out, at its end
ChecklistOnceAtEnd(out) ==
    /\ Len(out) >= Len(Checklist)
    /\ OccursAt(out, Checklist, Len(out) - Len(Checklist) + 1)
    /\ Cardinality(LinesOf(out, Tail(NextStepsMsg))) = 1
    /\ Cardinality(LinesOf(out, Step1Msg)) = 1
    /\ Cardinality(LinesOf(out, Step2Msg)) = 1
    /\ Cardinality(LinesOf(out, Step3Msg)) = 1

-----------------------------------------------------------------------------
(* The claims *)

\* C1: when subprocess.run has returned (so before the timeout) and the
\* captured stdout contains the check mark, the "needs adjustment" line is
\* never printed, and once the try statement is over the output holds the
\* three confirmation lines in their order.
C1_MarkerFoundPrintsConfigured ==
    (Returned /\ Contains(result[1].stdout, Marker)) =>
        /\ elapsed < Timeout
        /\ ~HasLine(output, AdjustMsg)
        /\ AfterTry => ConfiguredInOrder(output)

C1_Witness ==
    /\ pc = "done"
    /\ Returned
    /\ Contains(result[1].stdout, Marker)
    /\ ConfiguredInOrder(output)

\* C2: when subprocess.run has returned and the captured stdout does not
\* contain the check mark, none of the three confirmation lines is ever
\* printed, and once the try statement is over the output holds the "needs
\* adjustment" line.
C2_MarkerAbsentPrintsAdjust ==
    (Returned /\ ~Contains(result[1].stdout, Marker)) =>
        /\ ~AnyConfiguredLine(output)
        /\ AfterTry => HasLine(output, AdjustMsg)

C2_Witness ==
    /\ pc = "done"
    /\ Returned
    /\ ~Contains(result[1].stdout, Marker)
    /\ result[1].returncode = 0
    /\ HasLine(output, AdjustMsg)

\* C3: when subprocess.run raised TimeoutExpired, the try statement prints
\* after its progress line the timeout message and nothing else: the output
\* is the banner, the progress line, the timeout message and then the
\* checklist, with no confirmation line, no "needs adjustment" line and no
\* "Error:" line.
C3_TimeoutPrintsOnlyTimeoutMessage ==
    (TimedOut /\ AfterTry) =>
        /\ output = Preamble \o PrintLine(TimedOutMsg)
                      \o (IF pc = "next" THEN <<>> ELSE Checklist)
        /\ ~AnyConfiguredLine(output)
        /\ ~HasLine(output, AdjustMsg)
        /\ ~HasLineStarting(output, ErrorPrefix)
        /\ ~Returned

C3_Witness ==
    /\ pc = "done"
    /\ TimedOut
    /\ elapsed = Timeout
    /\ Contains(console, Marker)
    /\ Cardinality(LinesOf(output, TimedOutMsg)) = 1

\* C4: when starting the child raised an error other than the timeout, the
\* error is caught (the script never leaves the try statement with it and
\* ends with status 0) and the output holds the line "Error: " followed by
\* the text of the error, with no timeout message, no confirmation line and
\* no "needs adjustment" line.
C4_OtherErrorPrintsMessage ==
    OtherError =>
        /\ pc # "uncaught"
        /\ exit_code \in {-1, 0}
        /\ ~HasLine(output, TimedOutMsg)
        /\ ~AnyConfiguredLine(output)
        /\ ~HasLine(output, AdjustMsg)
        /\ AfterTry => HasLine(output, ErrorPrefix \o exc[1].msg)

C4_Witness ==
    /\ pc = "done"
    /\ exit_code = 0
    /\ OtherError
    /\ exc[1].type = "FileNotFoundError"
    /\ HasLine(output, ErrorPrefix \o exc[1].msg)

\* C5: every run ends, with exit status 0, in a state in which the output
\* holds the checklist exactly once, as the last thing printed.
C5_ChecklistAlwaysLast ==
    <>[](pc = "done" /\ exit_code = 0 /\ ChecklistOnceAtEnd(output))

C5_Witness ==
    /\ pc = "done"
    /\ exit_code = 0
    /\ ChecklistOnceAtEnd(output)
    /\ TimedOut

\* C6: subprocess.run is called once: a step calls it only from line 85 and
\* only when it has not been called, no step after the call leads back to
\* line 85, and the run ends having called it exactly once.
C6_LaunchedOnceNeverRetried ==
    [][ /\ launches' # launches => (pc = "run" /\ launches = 0 /\ launches' = 1)
        /\ launches >= 1 => pc' # "run"
        /\ pc' = "done" => launches' = 1 ]_vars

C6_Witness ==
    /\ pc = "done"
    /\ launches = 1
    /\ exc # <<>>

\* C7: the payload, once built, has exactly two nodes, "Content Webhook" of
\* type webhook at 240, 300 and then "MCP Analysis" of type function at
\* 460, 300, and json.loads(json.dumps(workflow_data)) equals it.
C7_PayloadShapeAndRoundTrip ==
    workflow_data # <<>> =>
        LET w == workflow_data[1]
            nodes == Get(w, "nodes").v
        IN  /\ Len(nodes) = 2
            /\ Get(nodes[1], "name") = PyStr(<<"Content Webhook">>)
            /\ Get(nodes[1], "type") = PyStr(<<"webhook">>)
            /\ Get(nodes[1], "position").v = <<PyInt(240), PyInt(300)>>
            /\ Get(nodes[2], "name") = PyStr(<<"MCP Analysis">>)
            /\ Get(nodes[2], "type") = PyStr(<<"function">>)
            /\ Get(nodes[2], "position").v = <<PyInt(460), PyInt(300)>>
            /\ json_loads(json_dumps(w)) = w

C7_Witness ==
    /\ pc = "done"
    /\ workflow_data # <<>>
    /\ Len(Get(workflow_data[1], "nodes").v) = 2
    /\ Contains(json_dumps(workflow_data[1]), Backslash)

\* C8: once built the payload never changes, the command is the literal
\* list whatever has happened, and the request the inline script sends has
\* no body.
C8_PayloadNeverConsumed ==
    [][ /\ workflow_data # <<>> => workflow_data' = workflow_data
        /\ cmd' \in {<<>>, CmdLiteral}
        /\ request' # <<>> => request'[1].body = <<>> ]_vars

C8_Witness ==
    /\ pc = "done"
    /\ workflow_data = <<WorkflowLiteral>>
    /\ cmd = CmdLiteral
    /\ request # <<>>

\* C9: when the inline script got a response or a request error, node
\* exited within the timeout and its console output is the captured stdout,
\* then after the try statement the confirmation lines are printed exactly
\* when the status code was 200, and the "needs adjustment" line is printed
\* for every other status code and for a request error.
C9_ConfiguredIffStatus200 ==
    (Returned /\ (status # 0 \/ inner_err # <<>>) /\ AfterTry) =>
        /\ result[1].stdout = console
        /\ ConfiguredInOrder(output) <=> status = 200
        /\ status # 200 => HasLine(output, AdjustMsg)

C9_Witness ==
    /\ pc = "done"
    /\ Returned
    /\ status = 201
    /\ HasLine(output, AdjustMsg)

\* C10: when subprocess.run has returned, no exception was raised and no
\* "Error:" line is printed whatever the exit status; after the try
\* statement the confirmation lines are printed exactly when stdout contains
\* the check mark and the "needs adjustment" line exactly when it does not,
\* whatever stderr contains; and the "Errors:" line, followed by the stderr
\* text, is printed exactly when stderr is not empty.
C10_OnlyStdoutMarkerDecides ==
    (Returned /\ AfterTry) =>
        /\ exc = <<>>
        /\ ~HasLineStarting(output, ErrorPrefix)
        /\ ConfiguredInOrder(output) <=> Contains(result[1].stdout, Marker)
        /\ HasLine(output, AdjustMsg) <=> ~Contains(result[1].stdout, Marker)
        /\ HasLine(output, ErrorsMsg) <=> result[1].stderr # <<>>
        /\ result[1].stderr # <<>> =>
              \E i \in LinesOf(output, ErrorsMsg) :
                  OccursAt(output, PrintLine(result[1].stderr),
                           i + Len(PrintLine(ErrorsMsg)))

C10_Witness ==
    /\ pc = "done"
    /\ Returned
    /\ result[1].returncode # 0
    /\ Contains(result[1].stderr, Marker)
    /\ ~Contains(result[1].stdout, Marker)
    /\ HasLine(output, AdjustMsg)
    /\ HasLine(output, ErrorsMsg)


====
